---------------------------- MODULE Spec2Model ----------------------------
(***************************************************************************)
(* Speech emotion recognition: the audio-to-emotion inference pipeline     *)
(* (AudioNormalizer -> FeatureExtractor -> EmotionClassifier ->            *)
(* SatisfactionScorer), the satisfaction scoring rule, the label encoder,  *)
(* the Trainer (stratified split, fit with early stopping, learning rate   *)
(* reduction and checkpoint), the swap-in of trained weights alongside     *)
(* inference, the batch request, and the web page (Home, AudioUploader,    *)
(* Dashboard) that posts a file to /api/predict and keeps the results.     *)
(*                                                                         *)
(* Numbers.  The program computes in floating point; the model computes    *)
(* in exact fixed point:                                                   *)
(*   - a probability or confidence p is the integer p * ProbScale          *)
(*     (four decimals, the resolution of the documented API responses);    *)
(*   - a base score b is the integer b * 10 (the table has one decimal);   *)
(*   - a satisfaction score s is the integer s * ScoreScale, where         *)
(*     ScoreScale = 10 * ProbScale, so that base * confidence is exact;    *)
(*   - an audio sample a is the integer a * AmpScale, AmpScale = 10^6, so  *)
(*     that the epsilon 1e-6 of the normalisation is the integer 1.        *)
(* Audio is kept run-length encoded: a sequence of runs [v, n], n samples  *)
(* of value v, so that clips of the real length (66150 samples) are        *)
(* handled exactly.                                                        *)
(*   - a learning rate r is the integer r * 8192 * 10^7, so that 0.001 and *)
(*     its halvings down to the floor 1e-7 are exact;                      *)
(*   - validation losses and accuracies are small integer levels: the      *)
(*     callbacks only compare them.                                        *)
(***************************************************************************)
EXTENDS Integers, Sequences, FiniteSets, TLC

VARIABLES
    pc,            \* stage of the inference request in flight
    raw,           \* decoded input samples (run-length encoded), or Undecodable
    clip,          \* normalised fixed-length clip (run-length encoded)
    probs,         \* classifier output: array of 7 probabilities
    result,        \* PredictionResult of the request, or NoResult
    response,      \* what the request returned, or NoResponse
    err,           \* error kind the request ended with, or "none"
    pred,          \* SatisfactionScorer.score: the PredictionResult passed in
    outcome,       \* SatisfactionScorer.score: what the call returned / raised
    labelPc,       \* label encoder: stage of the conversion in progress
    names,         \* label encoder: emotion names
    indices,       \* label encoder: class indices
    back,          \* label encoder: what converting back returned
    tpc,           \* Trainer: stage of the training job
    corpus,        \* Trainer: number of labelled samples of each class
    parts,         \* Trainer: the training / validation / test partitions
    terr,          \* Trainer: error kind the job ended with, or "none"
    trained,       \* Trainer: the ClassifierWeights produced, or NoWeights
    epoch,         \* fit: number of epochs completed
    lr,            \* fit: learning rate of the optimizer
    es,            \* fit: early stopping (best loss, its epoch, wait)
    rlr,           \* fit: learning rate reduction (best loss, wait)
    ckpt,          \* fit: the persisted weight snapshot (the checkpoint)
    writing,       \* fit: the snapshot being written, or NoCheckpoint
    model,         \* fit: the epoch whose weights the network holds
    hist,          \* fit: summary of the validation metrics logged so far
    heap,          \* serving: the weight sets in memory, parameter by parameter
    live,          \* serving: the weight set inference uses, 0 when not loaded
    staging,       \* serving: the weight set a swap-in is filling
    readers,       \* serving: the inference calls reading parameters
    bpc,           \* batch: stage of the batch request
    files,         \* batch: the files attached, in submission order
    batch,         \* batch: the response of the batch request, or NoBatch
    activeTab,     \* Home: the tab shown, "analyze" or "dashboard"
    results,       \* Home: the result displayed, or NoResults
    history,       \* Home: the results kept for the dashboard
    file,          \* AudioUploader: the selected file, or NoFile
    loading,       \* AudioUploader: an analysis is in progress
    error,         \* AudioUploader: the error message shown, or NoError
    instance,      \* AudioUploader: which mount of the component this is
    inflight,      \* the POST /api/predict requests not yet answered
    started,       \* number of POST /api/predict requests sent so far
    completed      \* the results handed to onAnalysisComplete, in order

pipelineVars == <<pc, raw, clip, probs, result, response, err>>

scorerVars == <<pred, outcome>>

labelVars == <<labelPc, names, indices, back>>

splitVars == <<tpc, corpus, parts, terr, trained>>

fitVars == <<epoch, lr, es, rlr, ckpt, writing, model, hist>>

servingVars == <<heap, live, staging, readers>>

batchVars == <<bpc, files, batch>>

homeVars == <<activeTab, results, history, completed>>

uploaderVars == <<file, loading, error, instance, inflight, started>>

vars ==
    <<pipelineVars, scorerVars, labelVars, splitVars, fitVars, servingVars,
      batchVars, homeVars, uploaderVars>>

\* everything but the web page
nonPageVars ==
    <<pipelineVars, scorerVars, labelVars, splitVars, fitVars, servingVars,
      batchVars>>

\* everything but the inference request
nonPipelineVars ==
    <<scorerVars, labelVars, splitVars, fitVars, servingVars, batchVars,
      homeVars, uploaderVars>>

\* everything but the direct calls of score
nonScorerVars ==
    <<pipelineVars, labelVars, splitVars, fitVars, servingVars, batchVars,
      homeVars, uploaderVars>>

\* everything but the label encoder
nonLabelVars ==
    <<pipelineVars, scorerVars, splitVars, fitVars, servingVars, batchVars,
      homeVars, uploaderVars>>

\* everything but the training job
nonTrainerVars ==
    <<pipelineVars, scorerVars, labelVars, servingVars, batchVars,
      homeVars, uploaderVars>>

\* everything but the weights being served
nonServingVars ==
    <<pipelineVars, scorerVars, labelVars, splitVars, fitVars, batchVars,
      homeVars, uploaderVars>>

\* everything but the batch request
nonBatchVars ==
    <<pipelineVars, scorerVars, labelVars, splitVars, fitVars, servingVars,
      homeVars, uploaderVars>>

---------------------------------------------------------------------------
(* Bounds of the model *)

\* confidences passed to score directly are k / ConfSteps, k = 0..ConfSteps
ConfSteps == 8

\* classifier logits range over -MaxLogit..MaxLogit
MaxLogit == 1

\* decoded inputs have at most MaxRuns runs of constant amplitude
MaxRuns == 2

\* the label encoder converts at most MaxLabelSeq labels in one call
MaxLabelSeq == 2

\* the small training corpora have 0..MaxClassCount samples of each class
MaxClassCount == 7

\* a fit runs for at most MaxEpochs epochs; validation losses are
\* 0..MaxLoss and validation accuracies 0..MaxAcc (coarse levels)
MaxEpochs == 17

MaxLoss == 2

MaxAcc == 2

\* the long fits that follow the learning rate down to its floor run for at
\* most MaxScheduleEpochs epochs with validation losses 0..MaxScheduleLoss
MaxScheduleEpochs == 78

MaxScheduleLoss == 6

\* a weight set has NumParams parameters; NumReaders inference calls run
\* at once; MaxSnapshots weight sets are installed one after the other
NumParams == 2

NumReaders == 2

MaxSnapshots == 3

\* a client attaches at most MaxOverflow files more than a batch may hold
MaxOverflow == 1

---------------------------------------------------------------------------
(* Program constants *)

\* 1.0 as a probability: probabilities are reported with four decimals
ProbScale == 10000

\* the neutral midpoint 5.0 of the blending rule, in tenths
MIDPOINT == 50

\* 1.0 as a satisfaction score
ScoreScale == 10 * ProbScale

\* the 1e-6 of the amplitude normalisation, in units of 1e-6
EPSILON == 1

\* 1.0 as an amplitude, in units of 1e-6
AmpScale == 1000000

SAMPLE_RATE == 22050

\* target duration in seconds
DURATION == 3

max_length == SAMPLE_RATE * DURATION

\* the classes in index order
LabelSpace ==
    <<"anger", "disgust", "fear", "happiness", "sadness", "surprise", "neutral">>

NumClasses == Len(LabelSpace)

Labels == {LabelSpace[i] : i \in 1..NumClasses}

\* emotion -> base satisfaction score, in tenths
BASE_SCORES ==
    [e \in Labels |->
        CASE e = "happiness" -> 90
          [] e = "surprise"  -> 70
          [] e = "neutral"   -> 60
          [] e = "sadness"   -> 30
          [] e = "fear"      -> 25
          [] e = "disgust"   -> 20
          [] e = "anger"     -> 10]

\* no PredictionResult / no response / no call made: records without the
\* fields of a result, so that nothing can be read from them
NoResult == [emotion |-> "none"]

NoResponse == [status |-> "none"]

NoOutcome == [kind |-> "none"]

\* no corpus loaded, no partitions made, no ClassifierWeights produced
NoCorpus == [c \in Labels |-> 0]

NoParts == [made |-> FALSE]

NoWeights == [epoch |-> 0]

\* no batch response
NoBatch == [results |-> <<>>]

\* Home: nothing displayed yet (results is null)
NoResults == [serial |-> 0]

\* AudioUploader: no file selected (file is null)
NoFile == [name |-> <<>>]

\* AudioUploader: no error shown (error is null)
NoError == "none"

\* a weight set none of whose parameters is written, a weight set holding
\* the parameters of snapshot id, and an inference call that reads nothing
Unwritten == [i \in 1..NumParams |-> 0]

WeightsOf(id) == [i \in 1..NumParams |-> id]

NotStaging == [id |-> 0, next |-> 1]

IdleReader == [ref |-> 0, seen |-> <<>>]

\* learning rates are integers in units of 1e-7 / 8192, so that 0.001 and
\* its thirteen halvings above the floor 1e-7 are exact:
\* Adam(learning_rate = 0.001), and Min LR 1e-7
INITIAL_LR == 81920000

MIN_LR == 8192

\* Factor 0.5: the learning rate is divided by LR_DIVISOR
LR_DIVISOR == 2

\* Patience of early stopping and of the learning rate reduction, in epochs
ES_PATIENCE == 15

LR_PATIENCE == 5

\* the best validation loss before the first epoch: above every loss
Infinity == MaxLoss + MaxScheduleLoss + 1

\* no snapshot persisted: below every validation accuracy
NoCheckpoint == [epoch |-> 0, acc |-> 0 - 1, complete |-> TRUE]

\* nothing logged yet
NoHistory ==
    [lowest |-> Infinity, lowest_epoch |-> 0, flat |-> 0,
     highest |-> 0 - 1, highest_epoch |-> 0,
     earlier |-> 0 - 1, earlier_epoch |-> 0]

---------------------------------------------------------------------------
(* SatisfactionScorer *)

RECURSIVE SumSeq(_)
SumSeq(s) == IF s = <<>> THEN 0 ELSE Head(s) + SumSeq(Tail(s))

\* total probability mass of a name -> probability mapping
SumProbabilities(p) == SumSeq([i \in 1..NumClasses |-> p[LabelSpace[i]]])

\* a tolerance of 1e-2
LooseTolerance == ProbScale \div 100

\* probability sums are accepted within 1e-3 of 1
SumTolerance == ProbScale \div 1000

\* a table with one entry off the 0-10 scale
BaseScoreOffScale(emotion) ==
    IF emotion = "happiness" THEN 109 ELSE BASE_SCORES[emotion]

base_score(emotion) == BASE_SCORES[emotion]

\* the blend without its midpoint term
BlendNoMidpoint(emotion, confidence) == base_score(emotion) * confidence

\* the blend with its two weights exchanged
BlendWeightsSwapped(emotion, confidence) ==
    base_score(emotion) * (ProbScale - confidence) + MIDPOINT * confidence

\* base_score * confidence + 5.0 * (1 - confidence), in units of 1/ScoreScale
BlendScore(emotion, confidence) ==
    base_score(emotion) * confidence + MIDPOINT * (ProbScale - confidence)

\* the validation without the confidence range
WellFormedIgnoringConfidence(prediction) ==
    /\ prediction.emotion \in Labels
    /\ SumProbabilities(prediction.probabilities) >= ProbScale - SumTolerance
    /\ SumProbabilities(prediction.probabilities) <= ProbScale + SumTolerance

\* a PredictionResult score accepts: probabilities sum to about 1 and
\* confidence lies in [0, 1]
IsWellFormed(prediction) ==
    /\ prediction.emotion \in Labels
    /\ SumProbabilities(prediction.probabilities) >= ProbScale - SumTolerance
    /\ SumProbabilities(prediction.probabilities) <= ProbScale + SumTolerance
    /\ prediction.confidence >= 0
    /\ prediction.confidence <= ProbScale

\* score(prediction): the value returned, or the error raised
score(prediction) ==
    IF ~IsWellFormed(prediction)
    THEN [kind |-> "InvalidPredictionError"]
    ELSE [kind |-> "ok",
          score |-> BlendScore(prediction.emotion, prediction.confidence)]

---------------------------------------------------------------------------
(* AudioNormalizer *)

Abs(x) == IF x < 0 THEN 0 - x ELSE x

Max(a, b) == IF a >= b THEN a ELSE b

Min(a, b) == IF a <= b THEN a ELSE b

\* len(audio)
RECURSIVE NumSamples(_)
NumSamples(audio) ==
    IF audio = <<>> THEN 0 ELSE Head(audio).n + NumSamples(Tail(audio))

\* audio[:k]
RECURSIVE TakeSamples(_, _)
TakeSamples(audio, k) ==
    IF audio = <<>> \/ k <= 0 THEN <<>>
    ELSE IF Head(audio).n >= k THEN <<[v |-> Head(audio).v, n |-> k]>>
    ELSE <<Head(audio)>> \o TakeSamples(Tail(audio), k - Head(audio).n)

\* audio[i], 1 <= i <= len(audio)
RECURSIVE SampleAt(_, _)
SampleAt(audio, i) ==
    IF i <= Head(audio).n THEN Head(audio).v
    ELSE SampleAt(Tail(audio), i - Head(audio).n)

\* np.max(np.abs(audio))
RECURSIVE Peak(_)
Peak(audio) ==
    IF audio = <<>> THEN 0 ELSE Max(Abs(Head(audio).v), Peak(Tail(audio)))

\* AmpScale = AmpDigit * AmpDigit: divisions are carried out digit by digit
\* in base AmpDigit, which keeps every intermediate product small
AmpDigit == 1000

\* (x * AmpScale) / d for x >= 0 and d > 0, rounded down: long division
ScaledQuotient(x, d) ==
    LET q1 == x \div d
        r1 == x % d
        q2 == (r1 * AmpDigit) \div d
        r2 == (r1 * AmpDigit) % d
        q3 == (r2 * AmpDigit) \div d
    IN  q1 * AmpScale + q2 * AmpDigit + q3

\* x / d as an amplitude, for d > 0, rounded toward zero
Quotient(x, d) ==
    IF x < 0 THEN 0 - ScaledQuotient(0 - x, d) ELSE ScaledQuotient(x, d)

\* librosa.load(file_path, sr=22050, duration=3.0): at most 3.0 s are read
Load(samples) == TakeSamples(samples, max_length)

\* the value of 0 / 0: no amplitude at all
NotANumber == 2 * AmpDigit * AmpScale

\* audio / np.max(np.abs(audio)): the division without its epsilon
AmplitudeNormalizeNoEpsilon(audio) ==
    [i \in 1..Len(audio) |->
        [v |-> IF Peak(audio) = 0 THEN NotANumber
               ELSE Quotient(audio[i].v, Peak(audio)),
         n |-> audio[i].n]]

\* audio / (np.max(np.abs(audio)) + 1e-6)
AmplitudeNormalize(audio) ==
    [i \in 1..Len(audio) |->
        [v |-> Quotient(audio[i].v, Peak(audio) + EPSILON),
         n |-> audio[i].n]]

\* the padding one sample too long
PadOrTrimOffByOne(audio) ==
    IF NumSamples(audio) < max_length
    THEN audio \o <<[v |-> 0, n |-> max_length - NumSamples(audio) + 1]>>
    ELSE TakeSamples(audio, max_length)

\* np.pad(audio, (0, max_length - len(audio))) or audio[:max_length]
PadOrTrim(audio) ==
    IF NumSamples(audio) < max_length
    THEN audio \o <<[v |-> 0, n |-> max_length - NumSamples(audio)]>>
    ELSE TakeSamples(audio, max_length)

\* normalize(rawAudioBytes, declaredFormat): the clip, or the error raised
normalize(input) ==
    IF ~input.decodable
    THEN [kind |-> "UnsupportedFormatError"]
    ELSE IF NumSamples(Load(input.samples)) = 0
    THEN [kind |-> "EmptyAudioError"]
    ELSE [kind |-> "ok",
          clip |-> PadOrTrim(AmplitudeNormalize(Load(input.samples)))]

---------------------------------------------------------------------------
(* EmotionClassifier: the output layer and the PredictionResult *)

\* e as the fixed-point ratio E_NUM / E_DEN
E_NUM == 2718

E_DEN == 1000

\* exp(z) * E_DEN for an integer logit z
RECURSIVE ExpFix(_)
ExpFix(z) ==
    IF z = 0 THEN E_DEN
    ELSE IF z > 0 THEN (ExpFix(z - 1) * E_NUM) \div E_DEN
    ELSE (ExpFix(z + 1) * E_DEN) \div E_NUM

\* an output layer that exponentiates without dividing by the sum
ExpOnly(logits) ==
    [i \in 1..NumClasses |-> (ExpFix(logits[i]) * ProbScale) \div E_DEN]

\* Dense(7, activation='softmax')
softmax(logits) ==
    [i \in 1..NumClasses |->
        (ExpFix(logits[i]) * ProbScale)
            \div SumSeq([j \in 1..NumClasses |-> ExpFix(logits[j])])]

\* argmax taking the last of the entries instead of the largest
ArgLast(predictions) == Len(predictions)

\* argmax(predictions): the first index holding the largest entry
argmax(predictions) ==
    CHOOSE i \in 1..Len(predictions) :
        /\ \A j \in 1..Len(predictions) : predictions[j] <= predictions[i]
        /\ \A j \in 1..(i - 1) : predictions[j] < predictions[i]

\* the classes in alphabetical order, as a freshly fitted encoder has them
SortedLabels ==
    <<"anger", "disgust", "fear", "happiness", "neutral", "sadness", "surprise">>

\* decoding against the alphabetical order while encoding uses LabelSpace
InverseTransformSorted(emotion_idx) == SortedLabels[emotion_idx]

\* label_encoder.inverse_transform([emotion_idx])
inverse_transform(emotion_idx) == LabelSpace[emotion_idx]

\* label_encoder.transform([emotion])
transform(emotion) == CHOOSE i \in 1..NumClasses : LabelSpace[i] = emotion

\* the "probabilities" mapping of a response: emotion name -> probability
AsMapping(predictions) == [e \in Labels |-> predictions[transform(e)]]

\* the PredictionResult built from the classifier output
predict(predictions) ==
    [emotion |-> inverse_transform(argmax(predictions)),
     confidence |-> predictions[argmax(predictions)],
     probabilities |-> AsMapping(predictions)]

\* a classifier that predicts whether or not weights are loaded
ModelLoadedUnchecked(weights) == TRUE

\* the model is loaded: there is a weight set to predict with
ModelLoaded(weights) == weights # 0

---------------------------------------------------------------------------
(* FeatureExtractor *)

\* the smallest window: a clip needs at least this many samples for one
\* time step (every normalised clip has max_length samples)
min_window == 1

\* extract fails on a clip shorter than one window
extract(audio) ==
    IF NumSamples(audio) < min_window
    THEN [kind |-> "FeatureExtractionError"]
    ELSE [kind |-> "ok"]

---------------------------------------------------------------------------
(* Documented responses of POST /api/predict *)

\* README, API Usage
README_RESPONSE ==
    [emotion |-> "happiness",
     confidence |-> 8900,
     probabilities |-> AsMapping(<<200, 100, 300, 8900, 100, 300, 100>>),
     satisfaction_score |-> 850000]

\* docs/MODEL.md, API Documentation
API_DOC_RESPONSE ==
    [emotion |-> "happiness",
     confidence |-> 8945,
     probabilities |-> AsMapping(<<234, 123, 345, 8945, 156, 134, 63>>),
     satisfaction_score |-> 850000]

DocumentedResponses == {README_RESPONSE, API_DOC_RESPONSE}

\* the classifier outputs behind the documented responses, as arrays
DocumentedPredictions ==
    {[i \in 1..NumClasses |-> r.probabilities[LabelSpace[i]]] :
        r \in DocumentedResponses}

---------------------------------------------------------------------------
(* Inputs *)

\* sample values: full scale negative, silence, one epsilon, a quiet
\* sample, and a sample beyond full scale
Amplitudes == {0 - AmpScale, 0, EPSILON, 300000, 1500000}

\* run lengths: one sample, one second, one short of the target, the target
RunLengths == {1, SAMPLE_RATE, max_length - 1, max_length}

Runs == [v : Amplitudes, n : RunLengths]

SampleSequences == UNION {[1..k -> Runs] : k \in 0..MaxRuns}

Undecodable == [decodable |-> FALSE, samples |-> <<>>]

NoAudio == [decodable |-> FALSE, samples |-> <<[v |-> 0, n |-> 0]>>]

RawInputs ==
    {[decodable |-> TRUE, samples |-> a] : a \in SampleSequences}
        \cup {Undecodable}

Logits == (0 - MaxLogit)..MaxLogit

LogitVectors == [1..NumClasses -> Logits]

\* confidences handed to score: the grid over [0, 1], the documented
\* confidences, and values outside [0, 1]
ScorerConfidences ==
    {(k * ProbScale) \div ConfSteps : k \in 0..ConfSteps}
        \cup {r.confidence : r \in DocumentedResponses}
        \cup {0 - ProbScale, 0 - 1, ProbScale + 1, 2 * ProbScale}

\* probability mappings handed to score: the documented ones, one whose sum
\* is off by less than the tolerance, and two whose sums are far from 1
ScorerProbabilities ==
    {r.probabilities : r \in DocumentedResponses}
        \cup {AsMapping(<<200, 100, 300, 8905, 100, 300, 100>>),
              AsMapping(<<200, 100, 300, 7900, 100, 300, 100>>),
              AsMapping(<<5000, 5000, 5000, 5000, 5000, 5000, 5000>>)}

ScorerInputs ==
    [emotion : Labels,
     confidence : ScorerConfidences,
     probabilities : ScorerProbabilities]

---------------------------------------------------------------------------
(* The inference request *)

Init ==
    /\ pc = "idle"
    /\ raw = NoAudio
    /\ clip = <<>>
    /\ probs = <<>>
    /\ result = NoResult
    /\ response = NoResponse
    /\ err = "none"
    /\ pred = NoResult
    /\ outcome = NoOutcome
    /\ labelPc = "idle"
    /\ names = <<>>
    /\ indices = <<>>
    /\ back = <<>>
    /\ tpc = "idle"
    /\ corpus = NoCorpus
    /\ parts = NoParts
    /\ terr = "none"
    /\ trained = NoWeights
    /\ epoch = 0
    /\ lr = INITIAL_LR
    /\ es = [best |-> Infinity, best_epoch |-> 0, wait |-> 0]
    /\ rlr = [best |-> Infinity, wait |-> 0]
    /\ ckpt = NoCheckpoint
    /\ writing = NoCheckpoint
    /\ model = 0
    /\ hist = NoHistory
    /\ heap = [id \in 1..MaxSnapshots |-> Unwritten]
    /\ live = 0
    /\ staging = NotStaging
    /\ readers = [r \in 1..NumReaders |-> IdleReader]
    /\ bpc = "idle"
    /\ files = <<>>
    /\ batch = NoBatch
    /\ activeTab = "analyze"
    /\ results = NoResults
    /\ history = <<>>
    /\ file = NoFile
    /\ loading = FALSE
    /\ error = NoError
    /\ instance = 1
    /\ inflight = {}
    /\ started = 0
    /\ completed = <<>>

\* process startup: the persisted weights are loaded, once
LoadWeights ==
    /\ live = 0
    /\ heap' = [heap EXCEPT ![1] = WeightsOf(1)]
    /\ live' = 1
    /\ UNCHANGED <<staging, readers, nonServingVars>>

\* a request arrives with its audio
Submit ==
    /\ pc = "idle"
    /\ \E input \in RawInputs : raw' = input
    /\ pc' = "received"
    /\ UNCHANGED <<clip, probs, result, response, err, nonPipelineVars>>

\* AudioNormalizer.normalize
NormalizeStep ==
    /\ pc = "received"
    /\ IF normalize(raw).kind = "ok"
       THEN /\ clip' = normalize(raw).clip
            /\ pc' = "normalized"
            /\ err' = "none"
       ELSE /\ clip' = <<>>
            /\ pc' = "failed"
            /\ err' = normalize(raw).kind
    /\ UNCHANGED <<raw, probs, result, response, nonPipelineVars>>

\* FeatureExtractor.extract: the clip is consumed and discarded; a clip
\* shorter than one window fails
ExtractStep ==
    /\ pc = "normalized"
    /\ IF extract(clip).kind = "ok"
       THEN /\ pc' = "extracted"
            /\ err' = "none"
       ELSE /\ pc' = "failed"
            /\ err' = extract(clip).kind
    /\ raw' = NoAudio
    /\ clip' = <<>>
    /\ UNCHANGED <<probs, result, response, nonPipelineVars>>

\* EmotionClassifier.infer: model.predict(features), which needs the weights
InferStep ==
    /\ pc = "extracted"
    /\ IF ModelLoaded(live)
       THEN /\ \/ \E logits \in LogitVectors : probs' = softmax(logits)
               \/ \E documented \in DocumentedPredictions :
                      probs' = documented
            /\ pc' = "inferred"
            /\ err' = "none"
       ELSE /\ probs' = <<>>
            /\ pc' = "failed"
            /\ err' = "ModelNotLoadedError"
    /\ UNCHANGED <<raw, clip, result, response, nonPipelineVars>>

\* argmax, label and confidence
PredictStep ==
    /\ pc = "inferred"
    /\ result' = predict(probs)
    /\ pc' = "predicted"
    /\ UNCHANGED <<raw, clip, probs, response, err, nonPipelineVars>>

\* SatisfactionScorer.score and the response
ScoreStep ==
    /\ pc = "predicted"
    /\ IF score(result).kind = "ok"
       THEN /\ response' = [emotion |-> result.emotion,
                            confidence |-> result.confidence,
                            probabilities |-> result.probabilities,
                            satisfaction_score |-> score(result).score]
            /\ pc' = "done"
            /\ err' = "none"
       ELSE /\ response' = NoResponse
            /\ pc' = "failed"
            /\ err' = score(result).kind
    /\ UNCHANGED <<raw, clip, probs, result, nonPipelineVars>>

\* the request is over; the next one starts from nothing
Finish ==
    /\ pc \in {"done", "failed"}
    /\ pc' = "idle"
    /\ raw' = NoAudio
    /\ clip' = <<>>
    /\ probs' = <<>>
    /\ result' = NoResult
    /\ response' = NoResponse
    /\ err' = "none"
    /\ UNCHANGED nonPipelineVars

Next ==
    \/ LoadWeights
    \/ Submit
    \/ NormalizeStep
    \/ ExtractStep
    \/ InferStep
    \/ PredictStep
    \/ ScoreStep
    \/ Finish

Spec == Init /\ [][Next]_vars

---------------------------------------------------------------------------
(* SatisfactionScorer.score called directly on any PredictionResult *)

ScoreCall ==
    /\ \E prediction \in ScorerInputs :
        /\ pred' = prediction
        /\ outcome' = score(prediction)
    /\ UNCHANGED nonScorerVars

NextScorer == ScoreCall

SpecScorer == Init /\ [][NextScorer]_vars

\* how far above a seventh the entries of a near-uniform vector go
MaxExcess == 2

\* classifier outputs that are nearly uniform: every entry within a few
\* ten-thousandths of a seventh
NearUniformVectors ==
    [1..NumClasses ->
        ((ProbScale \div NumClasses) - 1)..((ProbScale \div NumClasses) + MaxExcess)]

\* classifier outputs with a clear arg-max: the documented ones and one-hot
PeakedVectors ==
    {[i \in 1..NumClasses |-> r.probabilities[LabelSpace[i]]] :
        r \in DocumentedResponses}
        \cup {[i \in 1..NumClasses |-> IF i = k THEN ProbScale ELSE 0] :
                 k \in 1..NumClasses}

\* the classifier output is turned into a PredictionResult and scored
PredictCall ==
    /\ outcome = NoOutcome
    /\ \E predictions \in NearUniformVectors \cup PeakedVectors :
        /\ pred' = predict(predictions)
        /\ outcome' = score(predict(predictions))
    /\ UNCHANGED nonScorerVars

\* the call has returned: nothing of it is kept
ReturnCall ==
    /\ outcome # NoOutcome
    /\ pred' = NoResult
    /\ outcome' = NoOutcome
    /\ UNCHANGED nonScorerVars

NextPredict ==
    \/ PredictCall
    \/ ReturnCall

SpecPredict == Init /\ [][NextPredict]_vars

---------------------------------------------------------------------------
(* The label encoder: names to class indices and back *)

LabelSequences == UNION {[1..k -> Labels] : k \in 1..MaxLabelSeq}

IndexSequences == UNION {[1..k -> 1..NumClasses] : k \in 1..MaxLabelSeq}

\* label_encoder.transform(y): the integer-encoded labels of training
EncodeNames ==
    /\ labelPc = "idle"
    /\ \E y \in LabelSequences :
        /\ names' = y
        /\ indices' = [i \in 1..Len(y) |-> transform(y[i])]
    /\ labelPc' = "encoded"
    /\ UNCHANGED <<back, nonLabelVars>>

\* label_encoder.inverse_transform of the encoded labels
DecodeEncoded ==
    /\ labelPc = "encoded"
    /\ back' = [i \in 1..Len(indices) |-> inverse_transform(indices[i])]
    /\ labelPc' = "decoded"
    /\ UNCHANGED <<names, indices, nonLabelVars>>

\* label_encoder.inverse_transform(idx): the names of predicted classes
DecodeIndices ==
    /\ labelPc = "idle"
    /\ \E idx \in IndexSequences :
        /\ indices' = idx
        /\ names' = [i \in 1..Len(idx) |-> inverse_transform(idx[i])]
    /\ labelPc' = "named"
    /\ UNCHANGED <<back, nonLabelVars>>

\* label_encoder.transform of the decoded names
EncodeDecoded ==
    /\ labelPc = "named"
    /\ back' = [i \in 1..Len(names) |-> transform(names[i])]
    /\ labelPc' = "reencoded"
    /\ UNCHANGED <<names, indices, nonLabelVars>>

\* the conversion is over
ForgetLabels ==
    /\ labelPc \in {"decoded", "reencoded"}
    /\ labelPc' = "idle"
    /\ names' = <<>>
    /\ indices' = <<>>
    /\ back' = <<>>
    /\ UNCHANGED nonLabelVars

NextLabels ==
    \/ EncodeNames
    \/ DecodeEncoded
    \/ DecodeIndices
    \/ EncodeDecoded
    \/ ForgetLabels

SpecLabels == Init /\ [][NextLabels]_vars

---------------------------------------------------------------------------
(* Trainer: the stratified 70 / 15 / 15 split                              *)
(*                                                                         *)
(* A corpus is the number of samples of each class.  The samples of a      *)
(* class are numbered 1..corpus[c] in the order in which the seeded        *)
(* shuffle of the split draws them, so a partition is, for each class, a   *)
(* set of sample numbers.                                                  *)

\* test_size of the two train_test_split calls, in tenths: 0.3 and 0.5
TEST_SIZE_FIRST == 3

TEST_SIZE_SECOND == 5

\* the SAVEE corpus: 60 utterances of six emotions, 120 neutral ones
SAVEE == [c \in Labels |-> IF c = "neutral" THEN 120 ELSE 60]

\* number of samples of a corpus
Total(class_counts) ==
    SumSeq([i \in 1..NumClasses |-> class_counts[LabelSpace[i]]])

\* n_test = ceil(test_size * n_samples)
n_test(n_samples, test_size) == (n_samples * test_size + 9) \div 10

\* n_train = n_samples - n_test
n_train(n_samples, test_size) == n_samples - n_test(n_samples, test_size)

\* the per-class sizes of a stratified draw of n_draws samples: the floor
\* of each class's proportional share, plus one for the classes with the
\* largest remainders, ties broken by the random generator
approximate_mode(class_counts, n_draws) ==
    LET n == Total(class_counts)
        floored == [c \in Labels |-> (class_counts[c] * n_draws) \div n]
        remainder == [c \in Labels |-> (class_counts[c] * n_draws) % n]
        need_to_add == n_draws - Total(floored)
        Chosen == {S \in SUBSET Labels :
                     /\ Cardinality(S) = need_to_add
                     /\ \A a \in S : \A b \in Labels \ S :
                            remainder[a] >= remainder[b]}
    IN  {[c \in Labels |-> floored[c] + (IF c \in S THEN 1 ELSE 0)] :
            S \in Chosen}

ValueError == [kind |-> "ValueError"]

\* train_test_split(..., test_size, stratify = y): the possible per-class
\* sizes of the two parts, or ValueError when the split cannot be stratified
train_test_split(class_counts, test_size) ==
    LET n == Total(class_counts)
        classes == {c \in Labels : class_counts[c] > 0}
        nTrain == n_train(n, test_size)
        nTest == n_test(n, test_size)
    IN  IF \/ n = 0
           \/ nTrain = 0
           \/ \E c \in classes : class_counts[c] < 2
           \/ nTrain < Cardinality(classes)
           \/ nTest < Cardinality(classes)
        THEN {ValueError}
        ELSE {[kind |-> "ok",
               train |-> n_i,
               test |-> [c \in Labels |-> class_counts[c] - n_i[c]]] :
                 n_i \in approximate_mode(class_counts, nTrain)}

\* the Count lowest-numbered samples of a set, and the rest
Take(S, Count) == {x \in S : Cardinality({y \in S : y < x}) < Count}

Drop(S, Count) == S \ Take(S, Count)

\* X_temp of a mutant that splits the whole corpus a second time
XTempIsWhole(class_counts, first) ==
    [c \in Labels |-> 1..class_counts[c]]

\* X_temp: what the first split leaves for validation and test
X_temp(class_counts, first) ==
    [c \in Labels |-> (first.train[c] + 1)..class_counts[c]]

\* the three partitions made by a first and a second split
Partitions(class_counts, first, second) ==
    LET temp == X_temp(class_counts, first)
    IN  [made |-> TRUE,
         train |-> [c \in Labels |-> 1..first.train[c]],
         val |-> [c \in Labels |-> Take(temp[c], second.train[c])],
         test |-> [c \in Labels |-> Drop(temp[c], second.train[c])]]

\* a Trainer that does not look at the partitions it made
PopulatedUnchecked(class_counts, p) == TRUE

\* every class of the corpus has a sample in each partition
Populated(class_counts, p) ==
    \A c \in Labels :
        class_counts[c] > 0 =>
            /\ p.train[c] # {}
            /\ p.val[c] # {}
            /\ p.test[c] # {}

\* the outcomes of splitting a corpus: partitions, or InsufficientDataError
SplitOutcomes(class_counts) ==
    UNION {
        IF first = ValueError
        THEN {[kind |-> "InsufficientDataError"]}
        ELSE LET temp == X_temp(class_counts, first)
                 temp_counts == [c \in Labels |-> Cardinality(temp[c])]
             IN  {IF second = ValueError
                  THEN [kind |-> "InsufficientDataError"]
                  ELSE LET p == Partitions(class_counts, first, second)
                       IN  IF Populated(class_counts, p)
                           THEN [kind |-> "ok", parts |-> p]
                           ELSE [kind |-> "InsufficientDataError"] :
                    second \in train_test_split(temp_counts, TEST_SIZE_SECOND)} :
        first \in train_test_split(class_counts, TEST_SIZE_FIRST)}

\* classes of the small corpora
SmallClasses == {"anger", "happiness", "neutral"}

SmallCorpora ==
    {[c \in Labels |-> IF c \in SmallClasses THEN f[c] ELSE 0] :
        f \in [SmallClasses -> 0..MaxClassCount]}

Corpora == SmallCorpora \cup {SAVEE}

\* the training job is given a labelled corpus
LoadCorpus ==
    /\ tpc = "idle"
    /\ \E k \in Corpora : corpus' = k
    /\ tpc' = "loaded"
    /\ trained' = NoWeights
    /\ UNCHANGED <<parts, terr, fitVars, nonTrainerVars>>

\* the corpus is split, or the job fails with InsufficientDataError
SplitCorpus ==
    /\ tpc = "loaded"
    /\ \E o \in SplitOutcomes(corpus) :
        IF o.kind = "ok"
        THEN /\ parts' = o.parts
             /\ tpc' = "split"
             /\ terr' = "none"
        ELSE /\ parts' = NoParts
             /\ tpc' = "failed"
             /\ terr' = o.kind
    /\ UNCHANGED <<corpus, trained, fitVars, nonTrainerVars>>

\* the failed job is over and its data released
ReleaseCorpus ==
    /\ tpc = "failed"
    /\ tpc' = "idle"
    /\ corpus' = NoCorpus
    /\ parts' = NoParts
    /\ terr' = "none"
    /\ UNCHANGED <<trained, fitVars, nonTrainerVars>>

---------------------------------------------------------------------------
(* Trainer: the fit and its three callbacks                                *)
(*                                                                         *)
(* Weights are identified by the epoch that produced them: [epoch |-> k]   *)
(* are the weights at the end of epoch k.  A persisted snapshot also       *)
(* records the validation accuracy it was saved for and whether the file   *)
(* is complete.                                                            *)

\* Early Stopping, monitor validation loss: the best loss, the epoch that
\* reached it (whose weights are kept) and the epochs waited since; a loss
\* equal to the best is no improvement
EarlyStoppingTies(cb, e, val_loss) ==
    IF val_loss <= cb.best
    THEN [best |-> val_loss, best_epoch |-> e, wait |-> 0]
    ELSE [cb EXCEPT !.wait = @ + 1]

EarlyStopping(cb, e, val_loss) ==
    IF val_loss < cb.best
    THEN [best |-> val_loss, best_epoch |-> e, wait |-> 0]
    ELSE [cb EXCEPT !.wait = @ + 1]

\* a reduction that forgets the floor
ReducedNoFloor(old_lr) == old_lr \div LR_DIVISOR

\* new_lr = max(old_lr * factor, min_lr), applied only above min_lr
reduced_lr(old_lr) ==
    IF old_lr > MIN_LR
    THEN Max(old_lr \div LR_DIVISOR, MIN_LR)
    ELSE old_lr

\* Learning Rate Reduction, monitor validation loss: the callback after an
\* epoch, and whether it reduces the learning rate at that epoch
ReduceLROnPlateau(cb, val_loss) ==
    IF val_loss < cb.best
    THEN [best |-> val_loss, wait |-> 0, reduce |-> FALSE]
    ELSE IF cb.wait + 1 >= LR_PATIENCE
         THEN [best |-> cb.best, wait |-> 0, reduce |-> TRUE]
         ELSE [best |-> cb.best, wait |-> cb.wait + 1, reduce |-> FALSE]

\* a checkpoint that also saves on a tie
SaveOnTie(saved, val_accuracy) == val_accuracy >= saved.acc

\* Model Checkpoint, best model on validation accuracy: whether the epoch's
\* weights are saved over the persisted snapshot
SaveBest(saved, val_accuracy) == val_accuracy > saved.acc

\* a write that truncates the persisted file and fills it in place
WriteInPlace(saved, snapshot) == [snapshot EXCEPT !.complete = FALSE]

\* the persisted file while a new snapshot is being written: the new
\* snapshot goes to a side file and replaces the old one when complete
WhileWriting(saved, snapshot) == saved

\* the summary of the logged validation metrics after one more epoch: the
\* lowest loss, the first epoch that reached it and the number of epochs
\* since; the highest accuracy and the first epoch that reached it, now
\* (highest) and before this epoch (earlier)
Logged(h, e, val_loss, val_accuracy) ==
    [lowest |-> Min(h.lowest, val_loss),
     lowest_epoch |-> IF val_loss < h.lowest THEN e ELSE h.lowest_epoch,
     flat |-> IF val_loss < h.lowest THEN 0 ELSE h.flat + 1,
     highest |-> Max(h.highest, val_accuracy),
     highest_epoch |-> IF val_accuracy > h.highest THEN e
                       ELSE h.highest_epoch,
     earlier |-> h.highest,
     earlier_epoch |-> h.highest_epoch]

\* model.fit starts on the partitions
BeginFit ==
    /\ tpc = "split"
    /\ tpc' = "fitting"
    /\ corpus' = NoCorpus
    /\ parts' = NoParts
    /\ UNCHANGED <<terr, trained, fitVars, nonTrainerVars>>

\* the end of an epoch: the three callbacks see its validation metrics
on_epoch_end(val_loss, val_accuracy) ==
    LET e == epoch + 1
        stopper == EarlyStopping(es, e, val_loss)
        reducer == ReduceLROnPlateau(rlr, val_loss)
        stop == stopper.wait >= ES_PATIENCE
        snapshot == [epoch |-> e, acc |-> val_accuracy, complete |-> TRUE]
        save == SaveBest(ckpt, val_accuracy)
    IN  /\ epoch' = e
        /\ es' = stopper
        /\ rlr' = [best |-> reducer.best, wait |-> reducer.wait]
        /\ lr' = IF reducer.reduce THEN reduced_lr(lr) ELSE lr
        /\ hist' = Logged(hist, e, val_loss, val_accuracy)
        /\ IF save
           THEN /\ writing' = snapshot
                /\ ckpt' = WhileWriting(ckpt, snapshot)
                /\ tpc' = "saving"
                /\ model' = e
                /\ trained' = trained
           ELSE /\ writing' = writing
                /\ ckpt' = ckpt
                /\ tpc' = IF stop THEN "stopped" ELSE "fitting"
                /\ model' = IF stop THEN stopper.best_epoch ELSE e
                /\ trained' = IF stop
                              THEN [epoch |-> stopper.best_epoch]
                              ELSE trained
        /\ UNCHANGED <<corpus, parts, terr, nonTrainerVars>>

\* the new snapshot is complete and replaces the persisted one; training
\* goes on, or halts with the best weights restored
CommitCheckpoint ==
    /\ tpc = "saving"
    /\ ckpt' = writing
    /\ writing' = NoCheckpoint
    /\ IF es.wait >= ES_PATIENCE
       THEN /\ tpc' = "stopped"
            /\ model' = es.best_epoch
            /\ trained' = [epoch |-> es.best_epoch]
       ELSE /\ tpc' = "fitting"
            /\ UNCHANGED <<model, trained>>
    /\ UNCHANGED <<corpus, parts, terr, epoch, lr, es, rlr, hist,
                   nonTrainerVars>>

\* the configured number of epochs is reached: fit returns the weights the
\* network holds, which are the last epoch's or the restored best ones
FinishFit ==
    /\ tpc = "fitting"
    /\ epoch >= 1
    /\ tpc' = "finished"
    /\ \E w \in {model, es.best_epoch} :
        /\ model' = w
        /\ trained' = [epoch |-> w]
    /\ UNCHANGED <<corpus, parts, terr, epoch, lr, es, rlr, ckpt, writing,
                   hist, nonTrainerVars>>

\* the job is interrupted from outside, between epochs or during the write
\* of a snapshot, which is then left unfinished beside the persisted one
Interrupt ==
    /\ tpc \in {"fitting", "saving"}
    /\ tpc' = "interrupted"
    /\ UNCHANGED <<corpus, parts, terr, trained, fitVars, nonTrainerVars>>

\* an epoch of a fit with any validation loss and accuracy
Epoch ==
    /\ tpc = "fitting"
    /\ epoch < MaxEpochs
    /\ \E val_loss \in 0..MaxLoss : \E val_accuracy \in 0..MaxAcc :
        on_epoch_end(val_loss, val_accuracy)

\* an epoch of a long fit: any validation loss, constant accuracy
ScheduleEpoch ==
    /\ tpc = "fitting"
    /\ epoch < MaxScheduleEpochs
    /\ \E val_loss \in 0..MaxScheduleLoss : on_epoch_end(val_loss, 0)

NextTrainer ==
    \/ LoadCorpus
    \/ SplitCorpus
    \/ ReleaseCorpus
    \/ BeginFit
    \/ Epoch
    \/ CommitCheckpoint
    \/ FinishFit
    \/ Interrupt

SpecTrainer == Init /\ [][NextTrainer]_vars

NextSchedule ==
    \/ LoadCorpus
    \/ SplitCorpus
    \/ ReleaseCorpus
    \/ BeginFit
    \/ ScheduleEpoch
    \/ CommitCheckpoint
    \/ FinishFit
    \/ Interrupt

SpecSchedule == Init /\ [][NextSchedule]_vars

---------------------------------------------------------------------------
(* Training alongside inference: the swap-in of a trained snapshot         *)
(*                                                                         *)
(* A weight set in memory is heap[id], one entry per parameter holding the *)
(* id of the snapshot the parameter belongs to (0: not written).  An       *)
(* inference call takes the reference of the live set when it starts and   *)
(* reads the parameters of that set one at a time.                         *)

\* an update that overwrites the parameters of the live set
WriteIntoLive(live_id, staging_id) == live_id

\* the set the Trainer writes a new snapshot's parameters into: a fresh
\* set, not yet visible to inference
WriteTarget(live_id, staging_id) == staging_id

\* the Trainer has a fully trained snapshot to install
BeginSwap ==
    /\ live # 0
    /\ live < MaxSnapshots
    /\ staging = NotStaging
    /\ staging' = [id |-> live + 1, next |-> 1]
    /\ UNCHANGED <<heap, live, readers, nonServingVars>>

\* one parameter of the snapshot is written
WriteParam ==
    /\ staging.id # 0
    /\ staging.next <= NumParams
    /\ heap' = [heap EXCEPT
                  ![WriteTarget(live, staging.id)][staging.next] = staging.id]
    /\ staging' = [staging EXCEPT !.next = @ + 1]
    /\ UNCHANGED <<live, readers, nonServingVars>>

\* all parameters are written: the reference of the live set is replaced
SwapIn ==
    /\ staging.id # 0
    /\ staging.next > NumParams
    /\ live' = staging.id
    /\ staging' = NotStaging
    /\ UNCHANGED <<heap, readers, nonServingVars>>

\* an inference call starts: it is handed the live weights by reference
BeginRead(r) ==
    /\ readers[r].ref = 0
    /\ live # 0
    /\ readers' = [readers EXCEPT ![r] = [ref |-> live, seen |-> <<>>]]
    /\ UNCHANGED <<heap, live, staging, nonServingVars>>

\* the call reads the next parameter of its weight set
ReadParam(r) ==
    /\ readers[r].ref # 0
    /\ Len(readers[r].seen) < NumParams
    /\ readers' = [readers EXCEPT ![r].seen =
                      Append(@, heap[readers[r].ref][Len(@) + 1])]
    /\ UNCHANGED <<heap, live, staging, nonServingVars>>

\* the call has read every parameter and returns
EndRead(r) ==
    /\ readers[r].ref # 0
    /\ Len(readers[r].seen) = NumParams
    /\ readers' = [readers EXCEPT ![r] = IdleReader]
    /\ UNCHANGED <<heap, live, staging, nonServingVars>>

NextServing ==
    \/ LoadWeights
    \/ BeginSwap
    \/ WriteParam
    \/ SwapIn
    \/ \E r \in 1..NumReaders : BeginRead(r)
    \/ \E r \in 1..NumReaders : ReadParam(r)
    \/ \E r \in 1..NumReaders : EndRead(r)

SpecServing == Init /\ [][NextServing]_vars

---------------------------------------------------------------------------
(* POST /api/predict/batch *)

\* Maximum 10 files per request
MAX_BATCH_SIZE == 10

\* the files of the documented request, and the single-file result the
\* documented response shows for each (scores in units of 1 / ScoreScale)
BatchFiles == {"call1.wav", "call2.wav"}

BATCH_RESULT_1 ==
    [emotion |-> "happiness", confidence |-> 8945,
     satisfaction_score |-> 850000]

BATCH_RESULT_2 ==
    [emotion |-> "neutral", confidence |-> 7234,
     satisfaction_score |-> 620000]

\* the single-file prediction of one file of the batch
predict_file(name) ==
    IF name = "call1.wav" THEN BATCH_RESULT_1 ELSE BATCH_RESULT_2

\* a mean that divides by the size limit
AverageOverLimit(rs) ==
    SumSeq([i \in 1..Len(rs) |-> rs[i].satisfaction_score])
        \div MAX_BATCH_SIZE

\* average_satisfaction: the mean of the results' satisfaction scores
average_satisfaction(rs) ==
    SumSeq([i \in 1..Len(rs) |-> rs[i].satisfaction_score])
        \div Len(rs)

\* the response to a batch: one result per file, in order, and the average
predict_batch(fs) ==
    LET rs == [i \in 1..Len(fs) |-> predict_file(fs[i])]
    IN  [results |-> rs,
         average_satisfaction |-> average_satisfaction(rs)]

\* the client attaches one more file to the request
AttachFile ==
    /\ bpc = "idle"
    /\ Len(files) < MAX_BATCH_SIZE + MaxOverflow
    /\ \E f \in BatchFiles : files' = Append(files, f)
    /\ UNCHANGED <<bpc, batch, nonBatchVars>>

\* the request is posted: answered, or rejected when it holds too many files
PostBatch ==
    /\ bpc = "idle"
    /\ Len(files) >= 1
    /\ IF Len(files) > MAX_BATCH_SIZE
       THEN /\ bpc' = "rejected"
            /\ batch' = NoBatch
       ELSE /\ bpc' = "answered"
            /\ batch' = predict_batch(files)
    /\ UNCHANGED <<files, nonBatchVars>>

\* the request is over
ClearBatch ==
    /\ bpc \in {"answered", "rejected"}
    /\ bpc' = "idle"
    /\ files' = <<>>
    /\ batch' = NoBatch
    /\ UNCHANGED nonBatchVars

NextBatch ==
    \/ AttachFile
    \/ PostBatch
    \/ ClearBatch

SpecBatch == Init /\ [][NextBatch]_vars

(***************************************************************************)
(* The web page: Home (tabs, displayed result, history), AudioUploader     *)
(* (file selection, the POST /api/predict request) and the Dashboard.      *)
(* A file is [name, type, size]: name is the sequence of its characters,   *)
(* type the MIME type the browser reports, size its length in bytes.       *)
(* A result is tagged with the file it was computed for and the serial     *)
(* number of its request.                                                  *)
(***************************************************************************)

\* number of POST requests in a session of the uploader
MaxAnalyses == 2

\* number of POST requests in a long session
MaxSession == 12

\* number of times the uploader is mounted
MaxMounts == 2

validTypes == {"audio/wav", "audio/mpeg", "audio/mp3", "audio/flac", "audio/ogg"}

\* the alternatives of the pattern /\.(wav|mp3|flac|ogg)$/i
EXTENSIONS ==
    {<<"w", "a", "v">>, <<"m", "p", "3">>, <<"f", "l", "a", "c">>,
     <<"o", "g", "g">>}

MAX_FILE_SIZE == 10 * 1024 * 1024

INVALID_TYPE_MESSAGE == "Please upload a valid audio file (WAV, MP3, FLAC, OGG)"

TOO_LARGE_MESSAGE == "File size must be less than 10MB"

FAILED_MESSAGE == "Failed to analyze audio. Please try again."

\* a detail the service answers with (err.response.data.detail)
SERVER_DETAIL == "Unsupported file type. Allowed: .wav, .mp3, .flac, .ogg"

NoDetail == "undefined"

HISTORY_LIMIT == 10

\* the flag i of the pattern: letters compare in lower case
toLowerCase(c) ==
    CASE c = "W" -> "w" [] c = "A" -> "a" [] c = "V" -> "v"
      [] c = "M" -> "m" [] c = "P" -> "p" [] c = "F" -> "f"
      [] c = "L" -> "l" [] c = "C" -> "c" [] c = "O" -> "o"
      [] c = "G" -> "g" [] OTHER -> c

\* name ends with a dot followed by ext, letters in either case
EndsWithExtension(name, ext) ==
    /\ Len(name) >= Len(ext) + 1
    /\ name[Len(name) - Len(ext)] = "."
    /\ \A i \in 1..Len(ext) :
        toLowerCase(name[Len(name) - Len(ext) + i]) = ext[i]

\* file.name.match(/\.(wav|mp3|flac|ogg)$/i)
NameMatches(name) == \E ext \in EXTENSIONS : EndsWithExtension(name, ext)

\* the message handleFile rejects f with, NoError when it accepts f
Rejection(f) ==
    IF ~(f.type \in validTypes) /\ ~NameMatches(f.name)
    THEN INVALID_TYPE_MESSAGE
    ELSE IF f.size > MAX_FILE_SIZE
         THEN TOO_LARGE_MESSAGE
         ELSE NoError

RejectClearsSelection(f, current) ==
    IF Rejection(f) # NoError
    THEN [file |-> NoFile, error |-> Rejection(f)]
    ELSE [file |-> f, error |-> NoError]

\* handleFile: the selection and the error it leaves
Selection(f, current) ==
    IF Rejection(f) # NoError
    THEN [file |-> current, error |-> Rejection(f)]
    ELSE [file |-> f, error |-> NoError]

\* Array.prototype.slice(from, to)
slice(seq, from, to) == SubSeq(seq, from + 1, Min(to, Len(seq)))

KeepOldest(entry, prev) == slice(prev \o <<entry>>, 0, HISTORY_LIMIT)

\* the updater of setHistory: [result, ...prev].slice(0, 10)
KeepLast(entry, prev) == slice(<<entry>> \o prev, 0, HISTORY_LIMIT)

\* Dashboard: const totalAnalyses = history.length
totalAnalyses(h) == Len(h)

AlwaysEnabled(selected, busy) == selected # NoFile

\* the Analyze button is rendered when a file is selected, disabled={loading}
AnalyzeEnabled(selected, busy) == selected # NoFile /\ ~busy

\* the mount i of AudioUploader is on the page
Mounted(i) == activeTab = "analyze" /\ instance = i

NoMessage(detail) == NoError

\* catch: err.response?.data?.detail || 'Failed to analyze audio. ...'
FailureMessage(detail) == IF detail # NoDetail THEN detail ELSE FAILED_MESSAGE

StaysLoading(busy, request) == busy

\* finally { setLoading(false) }, on the uploader that sent the request
SetLoadingFalse(busy, request) ==
    IF Mounted(request.instance) THEN FALSE ELSE busy

\* the result the service computes for a request
ResultOf(request) == [file |-> request.file, serial |-> request.serial]

\* the files offered to the uploader: by name, by type, too large, neither
WavFile ==
    [name |-> <<"a", ".", "w", "a", "v">>, type |-> "audio/wav",
     size |-> MAX_FILE_SIZE]

UpperCaseFile ==
    [name |-> <<"b", ".", "M", "P", "3">>, type |-> "", size |-> 1024]

TypedOnlyFile ==
    [name |-> <<"c", ".", "t", "x", "t">>, type |-> "audio/mpeg",
     size |-> 1024]

TextFile ==
    [name |-> <<"c", ".", "t", "x", "t">>, type |-> "text/plain",
     size |-> 1024]

LargeFile ==
    [name |-> <<"a", ".", "w", "a", "v">>, type |-> "audio/wav",
     size |-> MAX_FILE_SIZE + 1]

BareNameFile == [name |-> <<"o", "g", "g">>, type |-> "", size |-> 1024]

OfferedFiles ==
    {WavFile, UpperCaseFile, TypedOnlyFile, TextFile, LargeFile, BareNameFile}

\* handleDrop / handleChange -> handleFile(f)
handleFile(f) ==
    /\ Mounted(instance)
    /\ file' = Selection(f, file).file
    /\ error' = Selection(f, file).error
    /\ UNCHANGED <<loading, instance, inflight, started, homeVars, nonPageVars>>

\* a click on the Analyze button -> handleAnalyze, at most cap requests
handleAnalyze(cap) ==
    /\ Mounted(instance)
    /\ AnalyzeEnabled(file, loading)
    /\ started < cap
    /\ IF file = NoFile
       THEN UNCHANGED <<loading, error, inflight, started>>
       ELSE /\ loading' = TRUE
            /\ error' = NoError
            /\ started' = started + 1
            /\ inflight' = inflight \cup
                   {[instance |-> instance, file |-> file,
                     serial |-> started + 1]}
    /\ UNCHANGED <<file, instance, homeVars, nonPageVars>>

\* the POST resolves: onAnalysisComplete(response.data), then finally
PostSucceeds(request) ==
    /\ request \in inflight
    /\ inflight' = inflight \ {request}
    /\ results' = ResultOf(request)
    /\ history' = KeepLast(ResultOf(request), history)
    /\ completed' = Append(completed, ResultOf(request))
    /\ loading' = SetLoadingFalse(loading, request)
    /\ UNCHANGED <<file, error, instance, started, activeTab, nonPageVars>>

\* the POST rejects: catch, then finally
PostFails(request, detail) ==
    /\ request \in inflight
    /\ inflight' = inflight \ {request}
    /\ error' = IF Mounted(request.instance)
                THEN FailureMessage(detail)
                ELSE error
    /\ loading' = SetLoadingFalse(loading, request)
    /\ UNCHANGED <<file, instance, started, homeVars, nonPageVars>>

\* a click on the X next to the selected file
clearFile ==
    /\ Mounted(instance)
    /\ file # NoFile
    /\ file' = NoFile
    /\ error' = NoError
    /\ UNCHANGED <<loading, instance, inflight, started, homeVars, nonPageVars>>

\* setActiveTab('dashboard'): the uploader is unmounted, its state is lost
ShowDashboard ==
    /\ activeTab = "analyze"
    /\ activeTab' = "dashboard"
    /\ file' = NoFile
    /\ loading' = FALSE
    /\ error' = NoError
    /\ UNCHANGED <<results, history, completed, instance, inflight, started,
                   nonPageVars>>

\* setActiveTab('analyze'): a new uploader is mounted
ShowAnalyze ==
    /\ activeTab = "dashboard"
    /\ instance < MaxMounts
    /\ activeTab' = "analyze"
    /\ instance' = instance + 1
    /\ UNCHANGED <<results, history, completed, file, loading, error,
                   inflight, started, nonPageVars>>

SelectFile == \E f \in OfferedFiles : handleFile(f)

Analyze == handleAnalyze(MaxAnalyses)

Resolve == \E request \in inflight : PostSucceeds(request)

Reject ==
    \E request \in inflight, detail \in {NoDetail, SERVER_DETAIL} :
        PostFails(request, detail)

NextPage ==
    \/ SelectFile
    \/ Analyze
    \/ Resolve
    \/ Reject
    \/ clearFile
    \/ ShowDashboard
    \/ ShowAnalyze

SpecPage == Init /\ [][NextPage]_vars

\* the request with serial number n is answered
Answered(n) ==
    \E request \in inflight :
        /\ request.serial = n
        /\ \/ PostSucceeds(request)
           \/ \E detail \in {NoDetail, SERVER_DETAIL} :
                  PostFails(request, detail)

\* every request sent is answered or fails in the end
SpecPageFair ==
    SpecPage /\ \A n \in 1..MaxAnalyses : WF_vars(Answered(n))

\* a long session of one uploader with one file, ending on the dashboard
SelectWav == handleFile(WavFile)

AnalyzeLong == handleAnalyze(MaxSession)

NextSession ==
    \/ SelectWav
    \/ AnalyzeLong
    \/ Resolve
    \/ Reject
    \/ clearFile
    \/ ShowDashboard

SpecSession == Init /\ [][NextSession]_vars

---------------------------------------------------------------------------
(* Properties of SatisfactionScorer.score, under SpecScorer *)

\* the call has been made and returned a score
Scored == outcome.kind = "ok"

\* the documented base scores, in tenths
DocumentedBase ==
    [happiness |-> 90, surprise |-> 70, neutral |-> 60, sadness |-> 30,
     fear |-> 25, disgust |-> 20, anger |-> 10]

\* the PredictionResult passed in is well formed: its seven probabilities
\* sum to 1 within 1e-3 and its confidence lies in [0, 1]
PredWellFormed ==
    /\ pred.probabilities["anger"] + pred.probabilities["disgust"]
         + pred.probabilities["fear"] + pred.probabilities["happiness"]
         + pred.probabilities["sadness"] + pred.probabilities["surprise"]
         + pred.probabilities["neutral"] \in 9990..10010
    /\ pred.confidence \in 0..10000

C2_ScoreInRange ==
    (outcome # NoOutcome /\ PredWellFormed) =>
        /\ Scored
        /\ outcome.score >= 0
        /\ outcome.score <= 10 * ScoreScale

C2_Witness ==
    /\ Scored
    /\ pred.emotion = "happiness"
    /\ pred.confidence = ProbScale
    /\ outcome.score = 9 * ScoreScale

\* the emotions whose base score is at least 5.0
AtLeastMidpoint == {"happiness", "surprise", "neutral"}

\* C3: for a fixed primary emotion, score is monotonic in confidence over
\* [0, 1] (non-decreasing when the base score is at least 5.0,
\* non-increasing when it is below), and score at confidence 0 is 5.0 for
\* every emotion.
C3_Monotonic ==
    /\ []((Scored /\ pred.confidence = 0) => outcome.score = 5 * ScoreScale)
    /\ [][(/\ Scored
           /\ outcome'.kind = "ok"
           /\ pred'.emotion = pred.emotion
           /\ pred.confidence <= pred'.confidence)
          => IF pred.emotion \in AtLeastMidpoint
             THEN outcome.score <= outcome'.score
             ELSE outcome.score >= outcome'.score]_vars

C3_Witness ==
    /\ Scored
    /\ pred.emotion = "anger"
    /\ pred.confidence = 0
    /\ outcome.score = 5 * ScoreScale

\* distance of a score from the midpoint 5.0
FromMidpoint(s) == IF s >= 5 * ScoreScale THEN s - 5 * ScoreScale
                   ELSE 5 * ScoreScale - s

C8_InvalidPrediction ==
    outcome # NoOutcome =>
        IF PredWellFormed
        THEN outcome.kind = "ok" /\ "score" \in DOMAIN outcome
        ELSE outcome.kind = "InvalidPredictionError"
                /\ "score" \notin DOMAIN outcome

C8_Witness ==
    /\ outcome.kind = "InvalidPredictionError"
    /\ pred.confidence > ProbScale
    /\ pred.probabilities = README_RESPONSE.probabilities

---------------------------------------------------------------------------
(* Properties of the inference request, under Spec *)

\* the probability vector of end-to-end scenario 2
Scenario2 ==
    [happiness |-> 8900, anger |-> 200, disgust |-> 100, fear |-> 300,
     sadness |-> 100, surprise |-> 300, neutral |-> 100]

C6_DocumentedExample ==
    (pc = "done" /\ response.emotion = "happiness"
        /\ response.confidence \in {8900, 8945}) =>
        /\ response.satisfaction_score >= 845000
        /\ response.satisfaction_score < 855000

\* C7: in every PredictionResult the primary emotion is the arg-max label
\* of the probability vector, confidence is the probability of that label,
\* and the vector has 7 entries, each in [0, 1], summing to 1 within 1e-3.
C7_PredictionResult ==
    result # NoResult =>
        /\ result.emotion \in DOMAIN result.probabilities
        /\ \A e \in DOMAIN result.probabilities :
            result.probabilities[e] <= result.probabilities[result.emotion]
        /\ result.confidence = result.probabilities[result.emotion]
        /\ Cardinality(DOMAIN result.probabilities) = 7
        /\ \A e \in DOMAIN result.probabilities :
            result.probabilities[e] \in 0..10000
        /\ result.probabilities["anger"] + result.probabilities["disgust"]
             + result.probabilities["fear"] + result.probabilities["happiness"]
             + result.probabilities["sadness"] + result.probabilities["surprise"]
             + result.probabilities["neutral"] \in 9990..10010

\* a PredictionResult whose largest probability is shared by two labels and
\* whose probabilities do not sum to exactly 1
C7_Witness ==
    /\ pc = "predicted"
    /\ result.emotion = "anger"
    /\ result.probabilities["neutral"] = result.confidence
    /\ result.probabilities["fear"] < result.confidence
    /\ SumProbabilities(result.probabilities) < ProbScale

---------------------------------------------------------------------------
(* Properties of AudioNormalizer.normalize, under Spec *)

\* the positions at which a run of the audio ends
RunEnds(audio) == {NumSamples(SubSeq(audio, 1, k)) : k \in 0..Len(audio)}

\* Both the input and the clip are constant between two consecutive run
\* ends, so what holds at the first and last position of every such
\* stretch holds at every position of the clip.
Positions ==
    {p \in UNION {{b, b + 1} : b \in RunEnds(raw.samples) \cup RunEnds(clip)} :
        p >= 1 /\ p <= NumSamples(clip)}

\* the number of input samples that can appear in the clip
KeptLength == Min(NumSamples(raw.samples), 66150)

\* C9: for every decodable non-empty input of any length, normalize returns
\* a clip of exactly the target length (3.0 s at 22,050 Hz = 66150 samples)
\* with every sample in [-1, 1]; an input shorter than the target appears
\* (scaled by its peak) as a prefix followed only by zeros, a longer one
\* contributes exactly its first 66150 samples.
C9_FixedLengthClip ==
    (raw.decodable /\ NumSamples(raw.samples) > 0) =>
        /\ pc \in {"received", "normalized"}
        /\ pc = "normalized" =>
            /\ NumSamples(clip) = 66150
            /\ \A i \in 1..Len(clip) :
                clip[i].n > 0 /\ clip[i].v >= 0 - 1000000 /\ clip[i].v <= 1000000
            /\ \A p \in Positions :
                IF p <= KeptLength
                THEN SampleAt(clip, p) =
                        Quotient(SampleAt(raw.samples, p),
                                 Peak(TakeSamples(raw.samples, KeptLength)) + 1)
                ELSE SampleAt(clip, p) = 0

\* an input one sample long, beyond full scale: scaled into [-1, 1] and
\* followed by 66149 zeros
C9_Witness ==
    /\ pc = "normalized"
    /\ raw.samples = <<[v |-> 1500000, n |-> 1]>>
    /\ clip = <<[v |-> 999999, n |-> 1], [v |-> 0, n |-> 66149]>>

\* the input is decodable, not empty, and all zeros
SilentInput ==
    /\ raw.decodable
    /\ NumSamples(raw.samples) > 0
    /\ \A i \in 1..Len(raw.samples) : raw.samples[i].v = 0

\* C10: for an all-zero input of any non-zero length, normalize returns an
\* all-zero clip of the target length and raises no error.
C10_Silence ==
    SilentInput =>
        /\ pc \in {"received", "normalized"}
        /\ err = "none"
        /\ pc = "normalized" =>
            /\ NumSamples(clip) = 66150
            /\ \A i \in 1..Len(clip) : clip[i].v = 0

\* one second of silence, normalised
C10_Witness ==
    /\ pc = "normalized"
    /\ raw.samples = <<[v |-> 0, n |-> 22050]>>
    /\ clip = <<[v |-> 0, n |-> 22050], [v |-> 0, n |-> 44100]>>

---------------------------------------------------------------------------
(* Properties of the label encoder, under SpecLabels *)

\* C11: for every one of the 7 class indices, index -> name -> index
\* returns the index, and for every label name, name -> index -> name
\* returns the name: the LabelSpace mapping is a bijection.
C11_LabelRoundTrip ==
    /\ labelPc = "decoded" => back = names
    /\ labelPc = "reencoded" => back = indices
    /\ labelPc # "idle" =>
        /\ Len(names) = Len(indices)
        /\ \A i \in 1..Len(indices) : indices[i] \in 1..7
        /\ \A i, j \in 1..Len(indices) :
            (indices[i] = indices[j]) <=> (names[i] = names[j])

\* "neutral", the one name the documented order and the alphabetical order
\* place differently from its neighbours, has gone to its index and back
C11_Witness ==
    /\ labelPc = "decoded"
    /\ names = <<"neutral", "sadness">>
    /\ indices = <<7, 5>>
    /\ back = <<"neutral", "sadness">>

---------------------------------------------------------------------------
(* Properties of the Trainer's split, under SpecTrainer *)

\* number of samples of a partition
PartSize(p) == SumSeq([i \in 1..NumClasses |-> Cardinality(p[LabelSpace[i]])])

TooFew == {c \in Labels : corpus[c] \in 1..2}

---------------------------------------------------------------------------
(* Properties of the fit, under SpecTrainer *)

\* C14: training goes on only while fewer than 15 epochs have passed since
\* the validation loss last improved; it is halted by early stopping exactly
\* at the 15th such epoch, and the weights then in force and returned are
\* those of the first epoch that reached the lowest validation loss logged
C14_EarlyStopping ==
    /\ tpc = "fitting" => hist.flat < 15
    /\ tpc = "saving" => hist.flat <= 15
    /\ tpc = "stopped" =>
        /\ hist.flat = 15
        /\ epoch = hist.lowest_epoch + 15
        /\ model = hist.lowest_epoch
        /\ trained = [epoch |-> hist.lowest_epoch]

\* the loss was lowest at epoch 2 and training was halted at epoch 17
C14_Witness ==
    /\ tpc = "stopped"
    /\ epoch = 17
    /\ hist.lowest_epoch = 2
    /\ hist.lowest = 1
    /\ model = 2

\* C16: after every completed epoch the persisted snapshot is complete and
\* holds the weights of the first epoch that reached the highest validation
\* accuracy logged so far, so no later epoch with a lower or equal accuracy
\* has replaced it
C16_BestCheckpoint ==
    (tpc \in {"fitting", "stopped", "finished"} /\ epoch >= 1) =>
        ckpt = [epoch |-> hist.highest_epoch,
                acc |-> hist.highest,
                complete |-> TRUE]

\* three epochs done, the second and third as accurate as each other: the
\* snapshot is still the second epoch's
C16_Witness ==
    /\ tpc = "fitting"
    /\ epoch = 3
    /\ hist.highest = 1
    /\ hist.earlier = 1
    /\ hist.earlier_epoch = 2
    /\ ckpt.epoch = 2

\* C18: when the job has been interrupted and a snapshot had been
\* persisted before, the persisted snapshot is complete and is the first
\* epoch's that reached the highest validation accuracy logged: of all
\* epochs when no write was in progress, of the epochs before the last one
\* when the interrupt came during the write of the last epoch's snapshot
C18_InterruptLeavesBest ==
    (tpc = "interrupted" /\ ckpt # NoCheckpoint) =>
        /\ ckpt.complete
        /\ ckpt.epoch \in 1..epoch
        /\ writing = NoCheckpoint =>
            /\ ckpt.epoch = hist.highest_epoch
            /\ ckpt.acc = hist.highest
        /\ writing # NoCheckpoint =>
            /\ ckpt.epoch = hist.earlier_epoch
            /\ ckpt.acc = hist.earlier
            /\ writing.acc > ckpt.acc

\* interrupted during the write of the second epoch's snapshot: the first
\* epoch's snapshot is still the persisted one
C18_Witness ==
    /\ tpc = "interrupted"
    /\ epoch = 2
    /\ writing = [epoch |-> 2, acc |-> 2, complete |-> TRUE]
    /\ ckpt = [epoch |-> 1, acc |-> 1, complete |-> TRUE]

---------------------------------------------------------------------------
(* Properties of the learning rate, under SpecSchedule *)

\* C15 as stated: the learning rate starts at 0.001, is never below the
\* floor 1e-7, and whenever it changes it is halved, after at least 5
\* epochs in a row without an improvement of the validation loss
C15_OnlyHalved ==
    /\ [](epoch = 0 => lr = 81920000)
    /\ [](lr >= 8192)
    /\ [][lr' # lr => (2 * lr' = lr /\ hist'.flat >= 5)]_vars

\* C15, amended: the learning rate starts at 0.001, is never below the
\* floor 1e-7, and whenever it changes it is halved, or set to the floor
\* when the half would be below the floor, at the 5th, 10th or 15th epoch
\* in a row without an improvement of the validation loss
C15_LearningRate ==
    /\ [](epoch = 0 => lr = 81920000)
    /\ [](lr >= 8192)
    /\ [][lr' # lr =>
            /\ hist'.flat \in {5, 10, 15}
            /\ \/ 2 * lr' = lr
               \/ lr' = 8192 /\ lr < 2 * 8192]_vars

\* after 77 epochs the learning rate has come down to the floor
C15_Witness ==
    /\ tpc = "fitting"
    /\ epoch = 77
    /\ lr = 8192
    /\ hist.flat = 10

---------------------------------------------------------------------------
(* Failure of an inference request, under Spec *)

ErrorKinds ==
    {"UnsupportedFormatError", "EmptyAudioError", "FeatureExtractionError",
     "ModelNotLoadedError", "InvalidPredictionError"}

\* the PredictionResult of the request is well formed
ResultWellFormed ==
    /\ result.probabilities["anger"] + result.probabilities["disgust"]
         + result.probabilities["fear"] + result.probabilities["happiness"]
         + result.probabilities["sadness"] + result.probabilities["surprise"]
         + result.probabilities["neutral"] \in 9990..10010
    /\ result.confidence \in 0..10000

\* C19: a request fails at the stage that cannot proceed, with that stage's
\* error kind: undecodable input, no samples, a clip shorter than a window,
\* absent weights, a malformed prediction; no stage lets such a request
\* through; a failed request returns nothing, and the only step after the
\* failure is the end of the request: no stage runs again
C19_FailFast ==
    /\ [](pc = "failed" => (err \in ErrorKinds /\ response = NoResponse))
    /\ [](pc \in {"inferred", "predicted", "done"} => live # 0)
    /\ [](pc = "done" => (err = "none" /\ response # NoResponse))
    /\ [][(pc # "failed" /\ pc' = "failed") =>
            \/ /\ pc = "received"
               /\ ~raw.decodable
               /\ err' = "UnsupportedFormatError"
            \/ /\ pc = "received"
               /\ raw.decodable
               /\ NumSamples(raw.samples) = 0
               /\ err' = "EmptyAudioError"
            \/ /\ pc = "normalized"
               /\ NumSamples(clip) = 0
               /\ err' = "FeatureExtractionError"
            \/ /\ pc = "extracted"
               /\ live = 0
               /\ err' = "ModelNotLoadedError"
            \/ /\ pc = "predicted"
               /\ ~ResultWellFormed
               /\ err' = "InvalidPredictionError"]_vars
    /\ [][pc = "failed" => (pc' = "idle" \/ UNCHANGED pipelineVars)]_vars

\* a request failed at the classifier because no weights were loaded
C19_Witness ==
    /\ pc = "failed"
    /\ err = "ModelNotLoadedError"
    /\ live = 0
    /\ result = NoResult
    /\ response = NoResponse

---------------------------------------------------------------------------
(* Properties of training alongside inference, under SpecServing *)

\* C17: the parameters an inference call has read so far all belong to one
\* snapshot, the one that was live when the call started, which is the
\* live one or an earlier one and was completely written; and no step of
\* an inference call changes a weight set, the live reference or a swap-in
C17_NoMixedWeights ==
    /\ [](\A r \in 1..NumReaders :
            /\ \A i, j \in 1..Len(readers[r].seen) :
                readers[r].seen[i] = readers[r].seen[j]
            /\ \A i \in 1..Len(readers[r].seen) :
                /\ readers[r].seen[i] # 0
                /\ readers[r].seen[i] <= live
            /\ readers[r].ref # 0 =>
                \A i \in 1..NumParams :
                    heap[readers[r].ref][i] = readers[r].ref)
    /\ [][readers' # readers => UNCHANGED <<heap, live, staging>>]_vars

\* one call has read the whole previous set while a second snapshot is
\* live and another call is reading that one
C17_Witness ==
    /\ live = 2
    /\ readers[1] = [ref |-> 1, seen |-> <<1, 1>>]
    /\ readers[2] = [ref |-> 2, seen |-> <<2>>]
    /\ staging.id = 3

---------------------------------------------------------------------------
(* Properties of the batch request, under SpecBatch *)

\* sum of the documented scores of the files attached
SumOfScores ==
    850000 * Cardinality({i \in 1..Len(files) : files[i] = "call1.wav"})
        + 620000 * Cardinality({i \in 1..Len(files) : files[i] = "call2.wav"})

Admissible(f) == NameMatches(f.name) /\ f.size <= MAX_FILE_SIZE

\* C21: every file the uploader holds as the selected file, and every file
\* it has sent to /api/predict, has one of the extensions .wav, .mp3,
\* .flac, .ogg and is not above 10 MB; any other file is rejected with an
\* error message.  The code accepts a file whose type is an audio type
\* whatever its name is.
C21_OnlyListedExtensions ==
    /\ file # NoFile => Admissible(file)
    /\ \A request \in inflight : Admissible(request.file)
    /\ \A i \in 1..Len(completed) : Admissible(completed[i].file)

(***************************************************************************)
(* Properties of the history, under SpecSession                            *)
(***************************************************************************)

\* C22: the history holds the most recent results only, newest first: its
\* length is the number of completed analyses up to 10, and its i-th entry
\* is the i-th latest result handed to onAnalysisComplete, so that the 11th
\* and every later completion drops exactly the oldest entry.
C22_HistoryNewestFirst ==
    /\ Len(history) = Min(Len(completed), 10)
    /\ \A i \in 1..Len(history) :
        history[i] = completed[Len(completed) + 1 - i]

\* more than 10 analyses have completed, one of them after a failed one
C22_Witness ==
    /\ Len(completed) > 10
    /\ Len(history) = 10
    /\ history[1].serial > history[2].serial + 1

(***************************************************************************)
(* Properties of an analysis, under SpecPageFair and SpecPage              *)
(***************************************************************************)

\* the request with serial number n has been sent and is not yet answered
Outstanding(n) == \E request \in inflight : request.serial = n

\* the uploader on the page has a request that is not yet answered
Busy == \E request \in inflight : Mounted(request.instance)

Succeeded(request) ==
    /\ completed' = Append(completed, ResultOf(request))
    /\ results' = ResultOf(request)
    /\ Len(history') >= 1
    /\ history'[1] = ResultOf(request)

\* the step answers request with a failure: nothing is handed to
\* onAnalysisComplete, and the uploader that sent it shows an error
Failed(request) ==
    /\ UNCHANGED <<completed, results, history>>
    /\ Mounted(request.instance) => error' \in {FAILED_MESSAGE, SERVER_DETAIL}

\* C24: onAnalysisComplete is called exactly once for every successful POST
\* and never for a failed one: a result is handed over only by the step that
\* answers its request, and no result is handed over twice; a failed POST
\* sets the error message (of the uploader that sent it, while it is on the
\* page) and leaves the displayed result and the history unchanged; with
\* no file selected no request is sent and loading is not set.
C24_OncePerSuccess ==
    /\ [][/\ inflight' # inflight /\ inflight' \subseteq inflight =>
                \E request \in inflight \ inflight' :
                    Succeeded(request) \/ Failed(request)
          /\ completed' # completed =>
                \E request \in inflight \ inflight' : Succeeded(request)
          /\ results' # results \/ history' # history =>
                completed' # completed
          /\ file = NoFile =>
                /\ started' = started
                /\ inflight' \subseteq inflight
                /\ loading' => loading]_vars
    /\ [](\A i, j \in 1..Len(completed) :
            completed[i].serial = completed[j].serial => i = j)
    /\ [](\A i \in 1..Len(completed) : ~Outstanding(completed[i].serial))

\* a POST has failed after one that succeeded: the error is shown and the
\* result of the first is still displayed
C24_Witness ==
    /\ started = 2
    /\ inflight = {}
    /\ error = SERVER_DETAIL
    /\ Len(completed) = 1
    /\ results = completed[1]
    /\ history = <<completed[1]>>

\* C25: while loading is true no second POST is started, and no uploader
\* ever has more than one request outstanding.
C25_OneRequestPerUploader ==
    /\ [][loading => started' = started /\ inflight' \subseteq inflight]_vars
    /\ [](\A r1, r2 \in inflight : r1.instance = r2.instance => r1 = r2)

\* the uploader on the page waits for its answer with a file selected,
\* while the request of an earlier uploader is still outstanding
C25_Witness ==
    /\ loading
    /\ file # NoFile
    /\ Cardinality(inflight) = 2
    /\ \E request \in inflight : Mounted(request.instance)

\* C26: a result handed to onAnalysisComplete and displayed is the result
\* for the file selected in the uploader at that moment.  The code does not
\* tie the answer to the selection: clearFile and handleFile stay available
\* while the request is outstanding, and the answer is displayed and put
\* in the history whatever is selected then.
C26_ResultForSelectedFile ==
    [][completed' # completed => results'.file = file]_vars

\* C27: when handleFile rejects a file it sets the error message and leaves
\* the selected file as it was, so that the earlier file is still selected
\* while the error is shown; when it accepts a file, that file replaces the
\* selection and the error is cleared.
C27_RejectKeepsSelection ==
    [][/\ error' \in {INVALID_TYPE_MESSAGE, TOO_LARGE_MESSAGE} /\ error' # error
            => file' = file
       /\ file' # file /\ file' # NoFile
            => error' = NoError /\ Rejection(file') = NoError]_vars

\* a file too large was offered while a.wav was selected: a.wav is still
\* selected, the error is shown and the Analyze button is enabled
C27_Witness ==
    /\ file = WavFile
    /\ error = TOO_LARGE_MESSAGE
    /\ Mounted(instance)
    /\ AnalyzeEnabled(file, loading)

\* C28: the figure 'Total Analyses' of the dashboard is the number of
\* analyses completed in the session, also beyond 10.  The code counts the
\* entries of the history, which keeps 10 at most.
C28_TotalCountsEveryAnalysis ==
    activeTab = "dashboard" => totalAnalyses(history) = Len(completed)

(***************************************************************************)
(* Properties of the weights a halted fit leaves, under SpecTrainer        *)
(***************************************************************************)

\* C29 as stated: when early stopping halts training, the weights restored
\* and returned are the snapshot the checkpoint holds
C29_RestoredIsCheckpoint ==
    tpc = "stopped" => trained.epoch = ckpt.epoch

\* C29, amended: when early stopping halts training, the weights restored
\* and returned are those of the first epoch with the lowest validation
\* loss and the checkpoint holds those of the first epoch with the highest
\* validation accuracy; they are the same snapshot exactly when that is
\* one and the same epoch.
C29_RestoredVersusCheckpoint ==
    tpc = "stopped" =>
        /\ trained.epoch = hist.lowest_epoch
        /\ ckpt.epoch = hist.highest_epoch
        /\ ckpt.complete
        /\ trained.epoch = ckpt.epoch <=> hist.lowest_epoch = hist.highest_epoch

\* training was halted with the lowest loss at epoch 1 and the highest
\* accuracy at epoch 2: the weights returned are not the checkpoint's
C29_Witness ==
    /\ tpc = "stopped"
    /\ trained.epoch = 1
    /\ ckpt.epoch = 2

(***************************************************************************)
(* Properties of the score of a classifier output, under SpecPredict       *)
(***************************************************************************)

\* |base_score(primary) - 5.0|, in tenths
BaseDistance == Abs(base_score(pred.emotion) - MIDPOINT)

\* |score - 5.0|, in units of 1/ScoreScale
ScoreDistance == Abs(outcome.score - MIDPOINT * ProbScale)

\* C30 as stated: for every valid probability vector the confidence of the
\* arg-max label is at least 1/7, the score is not 5.0 and differs from 5.0
\* by at least |base_score(primary) - 5.0| / 7
C30_AtLeastASeventh ==
    outcome.kind = "ok" =>
        /\ NumClasses * pred.confidence >= ProbScale
        /\ outcome.score # MIDPOINT * ProbScale
        /\ NumClasses * ScoreDistance >= BaseDistance * ProbScale

\* C30, amended: for every valid probability vector the confidence of the
\* arg-max label is at least a seventh of the sum of the entries, which is
\* at least 0.999; so the score is never 5.0 and differs from 5.0 by at
\* least |base_score(primary) - 5.0| * 0.999 / 7.  When the entries sum to
\* 1 or more the confidence is at least 1/7 and the distance at least
\* |base_score(primary) - 5.0| / 7.
C30_SeventhOfTheSum ==
    outcome.kind = "ok" =>
        /\ NumClasses * pred.confidence >= SumProbabilities(pred.probabilities)
        /\ NumClasses * pred.confidence >= (999 * ProbScale) \div 1000
        /\ outcome.score # MIDPOINT * ProbScale
        /\ NumClasses * ScoreDistance >=
               BaseDistance * ((999 * ProbScale) \div 1000)
        /\ SumProbabilities(pred.probabilities) >= ProbScale =>
               /\ NumClasses * pred.confidence >= ProbScale
               /\ NumClasses * ScoreDistance >= BaseDistance * ProbScale

\* a valid vector whose entries sum to 0.999 has been scored: its largest
\* entry is 0.1428, below a seventh
C30_Witness ==
    /\ outcome.kind = "ok"
    /\ SumProbabilities(pred.probabilities) = (999 * ProbScale) \div 1000
    /\ pred.confidence = 1428
    /\ NumClasses * pred.confidence < ProbScale

===========================================================================
